---- MODULE Spec2Model ----
(***************************************************************************)
(* Model of countries.py: an ETL pipeline that loads country records from  *)
(* a JSON cache or from two REST endpoints, flattens every record into a   *)
(* 17-field row (transform_country) and bulk-inserts the rows into a       *)
(* PostgreSQL table.                                                       *)
(*                                                                         *)
(* Python values.  A JSON scalar is a tagged record (Str, Num, Bool) and   *)
(* None is a fourth tag, so that a value which may be None can be compared *)
(* with any other.  A list is a sequence.  A dict is the sequence of its   *)
(* <<key, value>> pairs in insertion order (Python dicts are ordered), a   *)
(* key occurring at most once.                                             *)
(***************************************************************************)
EXTENDS Integers, Sequences, FiniteSets, TLC

VARIABLES
    pc,          \* position of main()
    cacheFile,   \* countries_raw.json on disk
    countries,   \* main's local `countries`
    response1,   \* fetch_country_data's local `response1`
    response2,   \* fetch_country_data's local `response2`
    requests,    \* network requests issued so far (requests.get calls)
    stdout,      \* messages printed so far
    exception,   \* the exception that ended main(), or "none"
    conn,        \* the psycopg2 connection: "none", "open", "closed"
    cursor,      \* the cursor: "none", "open", "closed"
    tableExists, \* whether the DDL of create_table has been executed
    txn,         \* rows inserted in the open transaction
    committed,   \* rows made durable by conn.commit()
    trace,       \* the calls main() has made, in order
    country,     \* the record handed to transform_country
    row          \* the tuple transform_country returned, or NoRow

vars == <<pc, cacheFile, countries, response1, response2, requests, stdout,
          exception, conn, cursor, tableExists, txn, committed, trace,
          country, row>>

-----------------------------------------------------------------------------
(* Bounds *)

\* longest list or map inside a record handed to transform_country
MaxLen == 2

\* longest list an endpoint returns / the cache holds
MaxResp == 2

-----------------------------------------------------------------------------
(* Python values *)

None == [t |-> "none"]
Str(s) == [t |-> "str", v |-> s]
Num(n) == [t |-> "num", v |-> n]
Bool(b) == [t |-> "bool", v |-> b]

\* a list held by a local variable that may also be None or unbound
List(xs) == [t |-> "list", v |-> xs]

\* a local variable that no assignment has bound yet
Unbound == [t |-> "unbound"]

\* k in d
Has(d, k) == \E i \in 1..Len(d) : d[i][1] = k

\* d.get(k, default)
Get(d, k, default) ==
    IF Has(d, k) THEN d[CHOOSE i \in 1..Len(d) : d[i][1] = k][2] ELSE default

\* list(d.keys()), the keys as Python strings
DictKeys(d) == [i \in 1..Len(d) |-> Str(d[i][1])]

\* list(d.values())
DictValues(d) == [i \in 1..Len(d) |-> d[i][2]]

\* bool(x) for a list or a dict: empty is falsy
Truthy(x) == x # <<>>

\* sep.join(xs) for a list xs of Python strings
RECURSIVE JoinRaw(_, _)
JoinRaw(sep, xs) ==
    IF xs = <<>> THEN ""
    ELSE IF Len(xs) = 1 THEN xs[1].v
    ELSE xs[1].v \o sep \o JoinRaw(sep, Tail(xs))

Join(sep, xs) == Str(JoinRaw(sep, xs))

-----------------------------------------------------------------------------
(* transform_country *)

\* [native.get('common', '') for native in natives]
NativeCommons(natives) ==
    [i \in 1..Len(natives) |-> Get(natives[i], "common", Str(""))]

\* [value.get('name', '') for value in values]
CurrencyNamesOf(values) ==
    [i \in 1..Len(values) |-> Get(values[i], "name", Str(""))]

\* [value.get('symbol', '') for value in values]
CurrencySymbolsOf(values) ==
    [i \in 1..Len(values) |-> Get(values[i], "symbol", Str(""))]

\* [root + suffix for suffix in suffixes]
RootPlus(root, suffixes) ==
    [i \in 1..Len(suffixes) |-> Str(root.v \o suffixes[i].v)]

\* CallingCodes with the default of the capital field
CallingCodes_Unknown(idd) ==
    IF Truthy(Get(idd, "suffixes", <<>>))
    THEN Join(", ", RootPlus(Get(idd, "root", Str("")),
                             Get(idd, "suffixes", <<>>)))
    ELSE Str("Unknown")

\* ', '.join([idd.get('root', '') + suffix for suffix in idd.get('suffixes', [])])
\*     if idd.get('suffixes') else ''
CallingCodes(idd) ==
    IF Truthy(Get(idd, "suffixes", <<>>))
    THEN Join(", ", RootPlus(Get(idd, "root", Str("")),
                             Get(idd, "suffixes", <<>>)))
    ELSE Str("")

\* Capital testing the presence of the key rather than the truth of the list
Capital_KeyTest(c) ==
    IF Has(c, "capital")
    THEN Join(", ", Get(c, "capital", <<>>))
    ELSE Str("Unknown")

\* ', '.join(country.get('capital', [])) if country.get('capital') else "Unknown"
Capital(c) ==
    IF Truthy(Get(c, "capital", <<>>))
    THEN Join(", ", Get(c, "capital", <<>>))
    ELSE Str("Unknown")

\* transform_country with country.get('area') and country.get('population'),
\* their default of 0 forgotten
transform_country_NoDefault(c) ==
    LET name == Get(c, "name", <<>>)
        currencies == Get(c, "currencies", <<>>)
        idd == Get(c, "idd", <<>>)
    IN  << Get(name, "common", None),
           Get(name, "official", None),
           Join(", ", NativeCommons(DictValues(Get(name, "nativeName", <<>>)))),
           Join(", ", DictKeys(currencies)),
           Join(", ", CurrencyNamesOf(DictValues(currencies))),
           Join(", ", CurrencySymbolsOf(DictValues(currencies))),
           CallingCodes(idd),
           Capital(c),
           Get(c, "region", None),
           Get(c, "subregion", None),
           Join(", ", DictValues(Get(c, "languages", <<>>))),
           Get(c, "area", None),
           Get(c, "population", None),
           Join(", ", Get(c, "continents", <<>>)),
           Get(c, "independent", None),
           Get(c, "unMember", None),
           Get(c, "startOfWeek", None) >>

transform_country(c) ==
    LET name == Get(c, "name", <<>>)
        currencies == Get(c, "currencies", <<>>)
        idd == Get(c, "idd", <<>>)
    IN  << Get(name, "common", None),
           Get(name, "official", None),
           Join(", ", NativeCommons(DictValues(Get(name, "nativeName", <<>>)))),
           Join(", ", DictKeys(currencies)),
           Join(", ", CurrencyNamesOf(DictValues(currencies))),
           Join(", ", CurrencySymbolsOf(DictValues(currencies))),
           CallingCodes(idd),
           Capital(c),
           Get(c, "region", None),
           Get(c, "subregion", None),
           Join(", ", DictValues(Get(c, "languages", <<>>))),
           Get(c, "area", Num(0)),
           Get(c, "population", Num(0)),
           Join(", ", Get(c, "continents", <<>>)),
           Get(c, "independent", None),
           Get(c, "unMember", None),
           Get(c, "startOfWeek", None) >>

-----------------------------------------------------------------------------
(* The records handed to transform_country *)

\* the top-level keys transform_country reads
TopKeys == {"name", "currencies", "idd", "capital", "region", "subregion",
            "languages", "area", "population", "continents", "independent",
            "unMember", "startOfWeek"}

\* the nested keys transform_country reads; "native.common" is the `common`
\* of a nativeName entry, "currency.name" the `name` of a currency
LeafKeys == {"common", "official", "nativeName", "native.common",
             "currency.name", "currency.symbol", "root", "suffixes"}

LangCodes == <<"eng", "fra", "deu", "ita">>
NativeNames == <<"Testland", "Pays de test", "Testland (de)", "Terra di prova">>
LanguageNames == <<"English", "French", "German", "Italian">>
CurrencyCodes == <<"XYZ", "ABC", "EUR", "USD">>
CurrencyNames == <<"Testcoin", "Alpha crown", "Euro", "Dollar">>
CurrencySymbols == <<"T", "Kr", "E", "$">>
Suffixes == <<"1", "23", "456", "7">>
CapitalNames == <<"Bern", "Unknown", "Pretoria", "Cape Town", "Bloemfontein">>
ContinentNames == <<"Europe", "Asia", "Africa", "Oceania">>

\* the pairs of `pairs` whose key is not in `omit`
Without(pairs, omit) == SelectSeq(pairs, LAMBDA p : p[1] \notin omit)

\* A record with every key present, lists and maps of length d, the capital
\* list starting at position 1 + rot of CapitalNames, the nested keys in
\* `omit` left out.
SampleRecord(d, rot, omit) ==
    LET native(i) == <<LangCodes[i],
                       Without(<< <<"common", Str(NativeNames[i])>> >>,
                               IF "native.common" \in omit
                               THEN {"common"} ELSE {})>>
        currency(i) == <<CurrencyCodes[i],
                         Without(<< <<"name", Str(CurrencyNames[i])>>,
                                    <<"symbol", Str(CurrencySymbols[i])>> >>,
                                 {IF "currency.name" \in omit
                                  THEN "name" ELSE "-",
                                  IF "currency.symbol" \in omit
                                  THEN "symbol" ELSE "-"})>>
    IN  << <<"name", Without(<< <<"common", Str("Testland")>>,
                                <<"official", Str("Republic of Testland")>>,
                                <<"nativeName", [i \in 1..d |-> native(i)]>> >>,
                             omit)>>,
           <<"currencies", [i \in 1..d |-> currency(i)]>>,
           <<"idd", Without(<< <<"root", Str("+4")>>,
                               <<"suffixes", [i \in 1..d |-> Str(Suffixes[i])]>> >>,
                            omit)>>,
           <<"capital", [i \in 1..d |-> Str(CapitalNames[i + rot])]>>,
           <<"region", Str("Europe")>>,
           <<"subregion", Str("Western Europe")>>,
           <<"languages", [i \in 1..d |-> <<LangCodes[i], Str(LanguageNames[i])>>]>>,
           <<"area", Num(41)>>,
           <<"population", Num(8)>>,
           <<"continents", [i \in 1..d |-> Str(ContinentNames[i])]>>,
           <<"independent", Bool(TRUE)>>,
           <<"unMember", Bool(FALSE)>>,
           <<"startOfWeek", Str("monday")>> >>

\* SampleRecord with only the top-level keys in `present`
RawRecord(present, d, rot, omit) ==
    Without(SampleRecord(d, rot, omit), TopKeys \ present)

\* no row: transform_country has not returned
NoRow == <<>>

-----------------------------------------------------------------------------
(* The transformer on its own: a record is drawn, transform_country is     *)
(* applied to it.                                                          *)

TransformInit ==
    /\ pc = "transform"
    /\ cacheFile = [exists |-> FALSE, parses |-> FALSE, data |-> <<>>]
    /\ countries = None
    /\ response1 = Unbound
    /\ response2 = Unbound
    /\ requests = 0
    /\ stdout = <<>>
    /\ exception = "none"
    /\ conn = "none"
    /\ cursor = "none"
    /\ tableExists = FALSE
    /\ txn = <<>>
    /\ committed = <<>>
    /\ trace = <<>>
    /\ \E present \in SUBSET TopKeys, d \in 0..MaxLen, rot \in 0..1 :
          \E omit \in {{}, {"root", "suffixes"}} \cup {{k} : k \in LeafKeys} :
             /\ (omit # {} => d = MaxLen /\ rot = 0)
             /\ country = RawRecord(present, d, rot, omit)
    /\ row = NoRow

Transform ==
    /\ pc = "transform"
    /\ row = NoRow
    /\ row' = transform_country(country)
    /\ pc' = "transformed"
    /\ UNCHANGED <<cacheFile, countries, response1, response2, requests,
                   stdout, exception, conn, cursor, tableExists, txn,
                   committed, trace, country>>

TransformNext == Transform

SpecTransform == TransformInit /\ [][TransformNext]_vars

-----------------------------------------------------------------------------
(* The two endpoints and the cache *)

CountryNames == <<"Testland", "Examplia", "Samplestan", "Mockovia">>

\* the i-th record of the first endpoint
Source1(i) ==
    << <<"name", << <<"common", Str(CountryNames[i])>> >> >>,
       <<"capital", <<Str(CapitalNames[i])>> >>,
       <<"region", Str("Europe")>>,
       <<"population", Num(i)>> >>

\* the i-th record of the second endpoint; it shares `name` and `population`
\* with the first
Source2(i) ==
    << <<"population", Num(100 + i)>>,
       <<"currencies", << <<CurrencyCodes[i],
                            << <<"name", Str(CurrencyNames[i])>>,
                               <<"symbol", Str(CurrencySymbols[i])>> >> >> >> >>,
       <<"name", << <<"common", Str(CountryNames[i])>>,
                    <<"official", Str("Republic of " \o CountryNames[i])>> >> >>,
       <<"area", Num(41)>> >>

\* requests.get(urls['url1']).json() and requests.get(urls['url2']).json()
\* when they succeed with n records
Endpoint1(n) == [i \in 1..n |-> Source1(i)]
Endpoint2(n) == [i \in 1..n |-> Source2(i)]

\* MergeDict keeping the first source's value on a shared key
MergeDict_FirstWins(country1, country2) ==
    country1 \o SelectSeq(country2, LAMBDA p : ~Has(country1, p[1]))

\* {**country1, **country2}: country1's keys in order, then country2's new
\* keys in order; on a shared key country2's value
MergeDict(country1, country2) ==
    [i \in 1..Len(country1) |->
        <<country1[i][1], Get(country2, country1[i][1], country1[i][2])>>]
    \o SelectSeq(country2, LAMBDA p : ~Has(country1, p[1]))

\* for country1, country2 in zip(response1, response2):
\*     merged_data.append({**country1, **country2})
RECURSIVE MergeLoop(_, _, _)
MergeLoop(r1, r2, merged_data) ==
    IF r1 = <<>> \/ r2 = <<>> THEN merged_data
    ELSE MergeLoop(Tail(r1), Tail(r2),
                   Append(merged_data, MergeDict(Head(r1), Head(r2))))

\* countries_raw.json: absent, present but unreadable as JSON, or holding a
\* JSON array
NoFile == [exists |-> FALSE, parses |-> FALSE, data |-> <<>>]
BadFile == [exists |-> TRUE, parses |-> FALSE, data |-> <<>>]
JsonFile(data) == [exists |-> TRUE, parses |-> TRUE, data |-> data]

\* what an earlier run of fetch_country_data leaves in the cache
CachedLists == {MergeLoop(Endpoint1(n), Endpoint2(n), <<>>) : n \in 0..MaxResp}

-----------------------------------------------------------------------------
(* main *)

USE_CACHED == TRUE

Init ==
    /\ pc = "start"
    /\ cacheFile \in {NoFile, BadFile} \cup {JsonFile(d) : d \in CachedLists}
    /\ countries = None
    /\ response1 = Unbound
    /\ response2 = Unbound
    /\ requests = 0
    /\ stdout = <<>>
    /\ exception = "none"
    /\ conn = "none"
    /\ cursor = "none"
    /\ tableExists = FALSE
    /\ txn = <<>>
    /\ committed = <<>>
    /\ trace = <<>>
    /\ country = <<>>
    /\ row = NoRow

\* load_country_data_from_json(), and the message it prints if any
load_country_data_from_json ==
    IF ~cacheFile.exists
    THEN [data |-> None, out |-> <<"JSON file not found">>]
    ELSE IF ~cacheFile.parses
    THEN [data |-> None, out |-> <<"Failed to load JSON">>]
    ELSE [data |-> List(cacheFile.data), out |-> <<>>]

\* countries = load_country_data_from_json() if USE_CACHED else None
LoadCache ==
    /\ pc = "start"
    /\ countries' = IF USE_CACHED THEN load_country_data_from_json.data ELSE None
    /\ stdout' = IF USE_CACHED THEN stdout \o load_country_data_from_json.out
                 ELSE stdout
    /\ trace' = IF USE_CACHED THEN Append(trace, "load_country_data_from_json")
                ELSE trace
    /\ pc' = "loaded"
    /\ UNCHANGED <<cacheFile, response1, response2, requests, exception, conn,
                   cursor, tableExists, txn, committed, country, row>>

\* Fetch returning an empty list when a request fails, the cache written all
\* the same
Fetch_WritesOnFailure ==
    /\ pc = "loaded"
    /\ countries = None
    /\ trace' = Append(trace, "fetch_country_data")
    /\ \E ok1, ok2 \in BOOLEAN, n1, n2 \in 0..MaxResp :
          /\ response1' = IF ok1 THEN List(Endpoint1(n1)) ELSE Unbound
          /\ response2' = IF ok1 /\ ok2 THEN List(Endpoint2(n2)) ELSE Unbound
          /\ requests' = requests + (IF ok1 THEN 2 ELSE 1)
          /\ LET merged_data == IF ok1 /\ ok2
                                THEN MergeLoop(Endpoint1(n1), Endpoint2(n2), <<>>)
                                ELSE <<>>
             IN  /\ cacheFile' = JsonFile(merged_data)
                 /\ stdout' = stdout \o <<"Fetching fresh data from API...",
                                          IF ok1 /\ ok2
                                          THEN "Data saved to countries_raw.json"
                                          ELSE "Failed to fetch data">>
                 /\ countries' = List(merged_data)
                 /\ exception' = exception
                 /\ pc' = "fetched"
    /\ UNCHANGED <<conn, cursor, tableExists, txn, committed, country, row>>

\* if countries is None: countries = fetch_country_data(urls)
\* ok1, ok2: whether each request and its .json() succeed; n1, n2: how many
\* records each returns.  The second request is issued only if the first
\* succeeds.  A failure is printed and execution goes on to the loop, whose
\* zip(response1, response2) reads a name no assignment has bound.
Fetch ==
    /\ pc = "loaded"
    /\ countries = None
    /\ trace' = Append(trace, "fetch_country_data")
    /\ \E ok1, ok2 \in BOOLEAN, n1, n2 \in 0..MaxResp :
          /\ response1' = IF ok1 THEN List(Endpoint1(n1)) ELSE Unbound
          /\ response2' = IF ok1 /\ ok2 THEN List(Endpoint2(n2)) ELSE Unbound
          /\ requests' = requests + (IF ok1 THEN 2 ELSE 1)
          /\ IF ok1 /\ ok2
             THEN LET merged_data == MergeLoop(Endpoint1(n1), Endpoint2(n2), <<>>)
                  IN  /\ cacheFile' = JsonFile(merged_data)
                      /\ stdout' = stdout \o <<"Fetching fresh data from API...",
                                               "Data saved to countries_raw.json">>
                      /\ countries' = List(merged_data)
                      /\ exception' = exception
                      /\ pc' = "fetched"
             ELSE /\ cacheFile' = cacheFile
                  /\ stdout' = stdout \o <<"Fetching fresh data from API...",
                                           "Failed to fetch data">>
                  /\ countries' = countries
                  /\ exception' = "UnboundLocalError"
                  /\ pc' = "failed"
    /\ UNCHANGED <<conn, cursor, tableExists, txn, committed, country, row>>

\* if not countries: raise ValueError(...)
Validate ==
    /\ \/ pc = "loaded" /\ countries # None
       \/ pc = "fetched"
    /\ IF countries.v = <<>>
       THEN /\ exception' = "ValueError"
            /\ pc' = "failed"
       ELSE /\ exception' = exception
            /\ pc' = "connect"
    /\ UNCHANGED <<cacheFile, countries, response1, response2, requests,
                   stdout, conn, cursor, tableExists, txn, committed, trace,
                   country, row>>

\* conn = connect_db(); if not conn: raise ConnectionError(...)
ConnectDb ==
    /\ pc = "connect"
    /\ trace' = Append(trace, "connect_db")
    /\ \E ok \in BOOLEAN :
          IF ok
          THEN /\ conn' = "open"
               /\ stdout' = Append(stdout, "Connected to database.")
               /\ exception' = exception
               /\ pc' = "cursor"
          ELSE /\ conn' = conn
               /\ stdout' = Append(stdout, "Database connection failed")
               /\ exception' = "ConnectionError"
               /\ pc' = "failed"
    /\ UNCHANGED <<cacheFile, countries, response1, response2, requests,
                   cursor, tableExists, txn, committed, country, row>>

\* cursor = conn.cursor()
OpenCursor ==
    /\ pc = "cursor"
    /\ trace' = Append(trace, "conn.cursor")
    /\ \E ok \in BOOLEAN :
          IF ok
          THEN /\ cursor' = "open"
               /\ exception' = exception
               /\ pc' = "create_table"
          ELSE /\ cursor' = cursor
               /\ exception' = "DatabaseError"
               /\ pc' = "failed"
    /\ UNCHANGED <<cacheFile, countries, response1, response2, requests,
                   stdout, conn, tableExists, txn, committed, country, row>>

\* create_table(cursor): read the DDL file, execute it
CreateTable ==
    /\ pc = "create_table"
    /\ trace' = Append(trace, "create_table")
    /\ \E err \in {"none", "FileNotFoundError", "DatabaseError"} :
          IF err = "none"
          THEN /\ tableExists' = TRUE
               /\ stdout' = Append(stdout, "Executed SQL")
               /\ exception' = exception
               /\ pc' = "insert_countries"
          ELSE /\ tableExists' = tableExists
               /\ stdout' = stdout
               /\ exception' = err
               /\ pc' = "failed"
    /\ UNCHANGED <<cacheFile, countries, response1, response2, requests,
                   conn, cursor, txn, committed, country, row>>

\* InsertCountries swallowing the error of executemany: main goes on to commit
InsertCountries_Swallow ==
    /\ pc = "insert_countries"
    /\ trace' = Append(trace, "insert_countries")
    /\ LET records == [i \in 1..Len(countries.v) |->
                          transform_country(countries.v[i])]
       IN  \E err \in {"none", "FileNotFoundError", "DatabaseError"} :
           \E k \in 0..(Len(records) - 1) :
              /\ err # "DatabaseError" => k = 0
              /\ txn' = IF err = "none" THEN records ELSE SubSeq(records, 1, k)
              /\ stdout' = Append(stdout, "Inserted records")
              /\ exception' = exception
              /\ pc' = "commit"
    /\ UNCHANGED <<cacheFile, countries, response1, response2, requests,
                   conn, cursor, tableExists, committed, country, row>>

\* insert_countries(cursor, countries): transform every record, read the DML
\* file, executemany; executemany may fail after k of the rows
InsertCountries ==
    /\ pc = "insert_countries"
    /\ trace' = Append(trace, "insert_countries")
    /\ LET records == [i \in 1..Len(countries.v) |->
                          transform_country(countries.v[i])]
       IN  \E err \in {"none", "FileNotFoundError", "DatabaseError"} :
           \E k \in 0..(Len(records) - 1) :
              IF err = "none"
              THEN /\ k = 0
                   /\ txn' = records
                   /\ stdout' = Append(stdout, "Inserted records")
                   /\ exception' = exception
                   /\ pc' = "commit"
              ELSE /\ err = "FileNotFoundError" => k = 0
                   /\ txn' = SubSeq(records, 1, k)
                   /\ stdout' = stdout
                   /\ exception' = err
                   /\ pc' = "failed"
    /\ UNCHANGED <<cacheFile, countries, response1, response2, requests,
                   conn, cursor, tableExists, committed, country, row>>

\* conn.commit()
Commit ==
    /\ pc = "commit"
    /\ trace' = Append(trace, "conn.commit")
    /\ \E ok \in BOOLEAN :
          IF ok
          THEN /\ committed' = committed \o txn
               /\ txn' = <<>>
               /\ exception' = exception
               /\ pc' = "cursor.close"
          ELSE /\ committed' = committed
               /\ txn' = txn
               /\ exception' = "DatabaseError"
               /\ pc' = "failed"
    /\ UNCHANGED <<cacheFile, countries, response1, response2, requests,
                   stdout, conn, cursor, tableExists, country, row>>

\* cursor.close()
CloseCursor ==
    /\ pc = "cursor.close"
    /\ trace' = Append(trace, "cursor.close")
    /\ cursor' = "closed"
    /\ pc' = "conn.close"
    /\ UNCHANGED <<cacheFile, countries, response1, response2, requests,
                   stdout, exception, conn, tableExists, txn, committed,
                   country, row>>

\* conn.close(); print("All done!")
CloseConn ==
    /\ pc = "conn.close"
    /\ trace' = Append(trace, "conn.close")
    /\ conn' = "closed"
    /\ stdout' = Append(stdout, "All done!")
    /\ pc' = "done"
    /\ UNCHANGED <<cacheFile, countries, response1, response2, requests,
                   exception, cursor, tableExists, txn, committed, country,
                   row>>

Next ==
    \/ LoadCache
    \/ Fetch
    \/ Validate
    \/ ConnectDb
    \/ OpenCursor
    \/ CreateTable
    \/ InsertCountries
    \/ Commit
    \/ CloseCursor
    \/ CloseConn

Spec == Init /\ [][Next]_vars

\* main() has ended, normally or by an exception
Terminated == pc \in {"done", "failed"}

-----------------------------------------------------------------------------
(* What the properties below read off a state *)

Called(f) == \E i \in 1..Len(trace) : trace[i] = f

\* the call that raised, when main ended by an exception raised in a call
Raised(f) == pc = "failed" /\ exception # "ValueError"
             /\ trace # <<>> /\ trace[Len(trace)] = f

\* a request of fetch_country_data failed
FetchFailed == Called("fetch_country_data")
               /\ (response1 = Unbound \/ response2 = Unbound)

\* sep.join from the right: the join of all but the last, then the last
RECURSIVE Joined(_)
Joined(xs) ==
    IF xs = <<>> THEN ""
    ELSE IF Len(xs) = 1 THEN xs[1].v
    ELSE Joined(SubSeq(xs, 1, Len(xs) - 1)) \o ", " \o xs[Len(xs)].v

KeySet(d) == {d[i][1] : i \in 1..Len(d)}

Min(a, b) == IF a <= b THEN a ELSE b

-----------------------------------------------------------------------------
(* fetch_country_data *)

\* C1: when a request of fetch_country_data fails, the function logs the
\* failure, does not raise, and returns an empty list.
C1_FetchFailureReturnsEmpty ==
    FetchFailed =>
        /\ \E i \in 1..Len(stdout) : stdout[i] = "Failed to fetch data"
        /\ exception # "UnboundLocalError"
        /\ countries = List(<<>>)

\* C5: the list fetch_country_data returns has the length of the shorter
\* response, and its i-th record has exactly the keys of the i-th records of
\* both responses, each key once, with the second response's value on a
\* shared key.
C5_MergeIsPositionalSecondWins ==
    pc = "fetched" =>
        LET a == response1.v
            b == response2.v
            m == countries.v
        IN  /\ Len(m) = Min(Len(a), Len(b))
            /\ \A i \in 1..Len(m) :
                  /\ KeySet(m[i]) = KeySet(a[i]) \cup KeySet(b[i])
                  /\ Len(m[i]) = Cardinality(KeySet(m[i]))
                  /\ \A k \in KeySet(m[i]) :
                        Get(m[i], k, None) = IF k \in KeySet(b[i])
                                             THEN Get(b[i], k, None)
                                             ELSE Get(a[i], k, None)

\* C5 witness: responses of different lengths with shared keys were merged
C5_Witness ==
    /\ pc = "fetched"
    /\ Len(response1.v) = 2
    /\ Len(response2.v) = 1
    /\ KeySet(response1.v[1]) \cap KeySet(response2.v[1]) # {}

\* C10: the cache file changes only in a fetch whose two requests succeed,
\* and then holds the list returned; a cache that exists and parses is loaded
\* without a message, and no network request is issued in a run whose load
\* printed no failure.
C10_CacheWrittenOnlyAfterSuccessfulFetch ==
    /\ [](requests > 0 =>
            /\ stdout # <<>>
            /\ stdout[1] \in {"JSON file not found", "Failed to load JSON"})
    /\ [][/\ (pc = "start" /\ cacheFile.exists /\ cacheFile.parses) =>
                 /\ stdout' = <<>>
                 /\ countries' = List(cacheFile.data)
                 /\ requests' = 0
          /\ cacheFile' # cacheFile =>
                 /\ pc = "loaded" /\ pc' = "fetched"
                 /\ response1' # Unbound /\ response2' # Unbound
          /\ (pc = "loaded" /\ pc' = "fetched") =>
                 cacheFile' = JsonFile(countries'.v)
          /\ (pc = "loaded" /\ FetchFailed') => cacheFile' = cacheFile]_vars

\* C10 witness: a fetch succeeded and the cache holds the records returned
C10_Witness ==
    /\ pc = "fetched"
    /\ requests = 2
    /\ Len(countries.v) = 2
    /\ cacheFile = JsonFile(countries.v)

-----------------------------------------------------------------------------
(* main *)

\* the cache yielded no records: the load returned None or an empty list
CacheYieldedNothing ==
    /\ Called("load_country_data_from_json")
    /\ \/ Called("fetch_country_data")
       \/ countries = List(<<>>)

\* C2: the cache is tried first; the fatal 'no data' condition is raised only
\* after the fetch has been invoked and has yielded no records.
C2_FetchBeforeNoData ==
    /\ trace # <<>> => trace[1] = "load_country_data_from_json"
    /\ Called("fetch_country_data") => trace[2] = "fetch_country_data"
    /\ exception = "ValueError" =>
          /\ Called("fetch_country_data")
          /\ countries = List(<<>>)

\* C3: once a connection has been acquired, main never ends with the
\* connection or the cursor still open.
C3_ConnectionClosedOnEveryExit ==
    (Terminated /\ conn # "none") => (conn = "closed" /\ cursor # "open")

\* C4: when neither the cache nor the fetch yields records, the fetch having
\* failed or returned an empty list, main ends with the 'no data' condition
\* and without a call to connect_db, create_table, insert_countries or commit.
C4_NoDataIsFatalBeforeDatabase ==
    (/\ Terminated
     /\ CacheYieldedNothing
     /\ Called("fetch_country_data") =>
            (FetchFailed \/ countries = List(<<>>)))
    => /\ exception = "ValueError"
       /\ ~Called("connect_db")
       /\ ~Called("create_table")
       /\ ~Called("insert_countries")
       /\ ~Called("conn.commit")

\* C9: the commit is called at most once, after create_table and then
\* insert_countries have returned; what is committed is the row of every
\* record; when connect_db, create_table or insert_countries fails, no commit
\* is called and nothing is committed.
C9_NoPartialCommit ==
    /\ Cardinality({i \in 1..Len(trace) : trace[i] = "conn.commit"}) <= 1
    /\ \A i \in 1..Len(trace) :
          trace[i] = "conn.commit" =>
              /\ i >= 3
              /\ trace[i - 2] = "create_table"
              /\ trace[i - 1] = "insert_countries"
              /\ tableExists
              /\ txn \o committed = [j \in 1..Len(countries.v) |->
                                        transform_country(countries.v[j])]
    /\ committed # <<>> => (Called("conn.commit") /\ txn = <<>>)
    /\ (\/ Raised("connect_db") \/ Raised("conn.cursor")
        \/ Raised("create_table") \/ Raised("insert_countries")) =>
          (~Called("conn.commit") /\ committed = <<>>)

\* C9 witness: a run that committed the rows of two records
C9_Witness ==
    /\ pc = "done"
    /\ Len(committed) = 2
    /\ txn = <<>>

-----------------------------------------------------------------------------
(* transform_country *)

Absent(k) == ~Has(country, k)
NameOf == Get(country, "name", <<>>)
IddOf == Get(country, "idd", <<>>)
SuffixesOf == Get(IddOf, "suffixes", <<>>)
CapitalOf == Get(country, "capital", <<>>)

\* C6, as stated: the 8th field is "Unknown" exactly when `capital` is absent
\* or empty, and otherwise the capitals joined with ", " in list order.
C6_CapitalUnknownExactlyWhenMissing ==
    row # NoRow =>
        /\ row[8] = Str("Unknown") <=> CapitalOf = <<>>
        /\ CapitalOf # <<>> => row[8] = Str(Joined(CapitalOf))

\* C6, amended: the 8th field is "Unknown" when `capital` is absent or empty,
\* and otherwise the capitals joined with ", " in list order.
C6_CapitalUnknownWhenMissing ==
    row # NoRow =>
        /\ CapitalOf = <<>> => row[8] = Str("Unknown")
        /\ CapitalOf # <<>> => row[8] = Str(Joined(CapitalOf))

\* C6 witness: a record with two capitals has been transformed
C6_Witness ==
    /\ row # NoRow
    /\ Len(CapitalOf) = 2
    /\ row[8] = Str("Bern, Unknown")

\* C7: the 7th field is the empty string, not "Unknown", when `idd` or its
\* `suffixes` is absent or empty, and otherwise idd.root (empty when absent)
\* followed by each suffix, joined with ", " in list order.
C7_CallingCodes ==
    row # NoRow =>
        IF SuffixesOf = <<>>
        THEN row[7] = Str("") /\ row[7] # Str("Unknown")
        ELSE LET root == IF Has(IddOf, "root") THEN Get(IddOf, "root", None).v
                         ELSE ""
             IN  row[7] = Str(Joined([i \in 1..Len(SuffixesOf) |->
                                         Str(root \o SuffixesOf[i].v)]))

\* C7 witness: a record with two suffixes and no root has been transformed
C7_Witness ==
    /\ row # NoRow
    /\ ~Has(IddOf, "root")
    /\ Len(SuffixesOf) = 2
    /\ row[7] = Str("1, 23")

\* the passthrough and defaulted columns: <<key, column, default>>
ScalarColumns == {<<"region", 9, None>>, <<"subregion", 10, None>>,
                  <<"area", 12, Num(0)>>, <<"population", 13, Num(0)>>,
                  <<"independent", 15, None>>, <<"unMember", 16, None>>,
                  <<"startOfWeek", 17, None>>}

\* what C8 says of every field but the capital
RowDefaults ==
    /\ Len(row) = 17
    /\ ~Has(NameOf, "common") => row[1] = None
    /\ ~Has(NameOf, "official") => row[2] = None
    /\ Has(NameOf, "common") => row[1] = Get(NameOf, "common", None)
    /\ Has(NameOf, "official") => row[2] = Get(NameOf, "official", None)
    /\ ~Has(NameOf, "nativeName") => row[3] = Str("")
    /\ Absent("currencies") =>
          row[4] = Str("") /\ row[5] = Str("") /\ row[6] = Str("")
    /\ Absent("idd") => row[7] = Str("")
    /\ Absent("languages") => row[11] = Str("")
    /\ Absent("continents") => row[14] = Str("")
    /\ \A sc \in ScalarColumns :
          row[sc[2]] = IF Absent(sc[1]) THEN sc[3]
                       ELSE Get(country, sc[1], None)

\* C8, as stated: on a record missing any of its keys transform_country
\* returns 17 fields in column order, every join over a missing map or list
\* empty, area and population 0, the passthrough fields null.
C8_MissingKeysGiveEmptyJoins ==
    row # NoRow => (RowDefaults /\ (Absent("capital") => row[8] = Str("")))

\* C8, amended: the same, except that a missing capital list gives "Unknown".
C8_MissingKeysGiveDefaults ==
    row # NoRow => (RowDefaults /\ (Absent("capital") => row[8] = Str("Unknown")))

\* C8 witness: the record with no key at all has been transformed
C8_Witness ==
    /\ row # NoRow
    /\ country = <<>>

====
